---- MODULE Spec2Model ----
(***************************************************************************)
(* A model of snes_connector.py, the build123d generator of the SNES       *)
(* controller connector.  All lengths are integers in units of 0.01 mm     *)
(* (1.2 mm is 120), which represents every literal of the script exactly;  *)
(* every halving the script performs is of an even number in these units.  *)
(* Rotations are by multiples of 90 degrees and are modelled by their      *)
(* exact integer matrices.                                                 *)
(***************************************************************************)
EXTENDS Integers, Sequences, FiniteSets, TLC

VARIABLES pc, shell_thickness, dev, cfg, mirror_image, mirror, body, pin,
          objects, final_pos, variants, shown, exported, idx, resolved

vars == <<pc, shell_thickness, dev, cfg, mirror_image, mirror, body, pin,
          objects, final_pos, variants, shown, exported, idx, resolved>>

(***************************************************************************)
(* Bounds of the model.                                                    *)
(***************************************************************************)
\* shell_thickness ranges over 0.1 mm .. MaxShellTenths * 0.1 mm
MaxShellTenths == 59
\* list indices tried against cfg.pin.pos range over -MaxIdx .. MaxIdx
MaxIdx == 9

\* range(7): the number of contacts
NumPins == 7

(***************************************************************************)
(* Arithmetic helpers                                                      *)
(***************************************************************************)
\* half = lambda n: n/2
half(n) == n \div 2

Abs(n) == IF n < 0 THEN -n ELSE n

Min(S) == CHOOSE m \in S : \A n \in S : m <= n

Max(S) == CHOOSE m \in S : \A n \in S : m >= n

RECURSIVE sum(_)
\* Python's sum() of a list
sum(s) == IF s = <<>> THEN 0 ELSE s[1] + sum(Tail(s))

\* Python's s[:i]
Prefix(s, i) == SubSeq(s, 1, i)

(***************************************************************************)
(* build123d Vector: a triple; Vector(x) is (x, 0, 0)                      *)
(***************************************************************************)
Vector(x) == <<x, 0, 0>>

VAdd(a, b) == <<a[1] + b[1], a[2] + b[2], a[3] + b[3]>>

VSub(a, b) == <<a[1] - b[1], a[2] - b[2], a[3] - b[3]>>

\* Vector / 2
VHalf(a) == <<half(a[1]), half(a[2]), half(a[3])>>

\* Vector.reverse(): the negated vector
VReverse(a) == <<-a[1], -a[2], -a[3]>>

VScale(k, a) == <<k * a[1], k * a[2], k * a[3]>>

\* Vector.length: the Euclidean norm (an exact integer for the vectors the
\* script measures, which lie along one axis)
VLength(a) ==
    LET sq == a[1] * a[1] + a[2] * a[2] + a[3] * a[3]
        bound == Abs(a[1]) + Abs(a[2]) + Abs(a[3])
    IN  CHOOSE n \in 0..bound : n * n <= sq /\ (n + 1) * (n + 1) > sq

(***************************************************************************)
(* build123d Location: a rigid transform, p |-> m p + t                    *)
(***************************************************************************)
Dot(a, b) == a[1] * b[1] + a[2] * b[2] + a[3] * b[3]

MatVec(m, v) == <<Dot(m[1], v), Dot(m[2], v), Dot(m[3], v)>>

Col(m, j) == <<m[1][j], m[2][j], m[3][j]>>

MatMul(a, b) == [i \in 1..3 |-> [j \in 1..3 |-> Dot(a[i], Col(b, j))]]

IdentityM == <<<<1, 0, 0>>, <<0, 1, 0>>, <<0, 0, 1>>>>

\* cosine and sine of the angles (in degrees) the script uses
Cos(deg) == CASE deg = 0 -> 1 [] deg = 90 -> 0 [] deg = 180 -> -1

Sin(deg) == CASE deg = 0 -> 0 [] deg = 90 -> 1 [] deg = 180 -> 0

RotXM(deg) == <<<<1, 0, 0>>, <<0, Cos(deg), -Sin(deg)>>, <<0, Sin(deg), Cos(deg)>>>>

RotYM(deg) == <<<<Cos(deg), 0, Sin(deg)>>, <<0, 1, 0>>, <<-Sin(deg), 0, Cos(deg)>>>>

RotZM(deg) == <<<<Cos(deg), -Sin(deg), 0>>, <<Sin(deg), Cos(deg), 0>>, <<0, 0, 1>>>>

\* Pos(v): a pure translation
Pos(v) == [m |-> IdentityM, t |-> v]

\* Rot(x, y, z): a pure rotation, angles in degrees about X, Y and Z
Rot(x, y, z) == [m |-> MatMul(RotXM(x), MatMul(RotYM(y), RotZM(z))), t |-> <<0, 0, 0>>]

\* Location * Location: the right operand acts first
LocMul(a, b) == [m |-> MatMul(a.m, b.m), t |-> VAdd(MatVec(a.m, b.t), a.t)]

\* where a location takes a point
Apply(loc, p) == VAdd(MatVec(loc.m, p), loc.t)

(***************************************************************************)
(* Python list indexing, list[k]                                           *)
(***************************************************************************)
\* a variant of GetItem that rejects every index outside 0 .. n-1
GetItem_nowrap(list, k) ==
    IF 0 <= k /\ k < Len(list) THEN [ok |-> TRUE, val |-> list[k + 1]]
    ELSE [ok |-> FALSE, err |-> "IndexError: list index out of range"]

\* list.__getitem__(k) on a list held as a 1-based sequence: 0 <= k < n is
\* element k, -n <= k < 0 counts from the end, anything else raises
GetItem(list, k) ==
    LET n == Len(list)
    IN  IF 0 <= k /\ k < n THEN [ok |-> TRUE, val |-> list[k + 1]]
        ELSE IF -n <= k /\ k < 0 THEN [ok |-> TRUE, val |-> list[n + k + 1]]
        ELSE [ok |-> FALSE, err |-> "IndexError: list index out of range"]

\* list[k] where the script subscripts with a literal
At(list, k) == GetItem(list, k).val

(***************************************************************************)
(* params()                                                                *)
(***************************************************************************)
\* a variant of gaps with the wide gap one place early (groups of 3 and 4)
gaps_misplaced == <<400, 400, 650, 400, 400, 400>>

gaps == <<400, 400, 400, 650, 400, 400>>

p0 == -half(sum(gaps))

\* p.pos = [Vector(p0+sum(gaps[:i])) for i in range(7)]
PinPositions == [i \in 1..NumPins |-> Vector(p0 + sum(Prefix(gaps, i - 1)))]

\* with cfg.pin as p
PinParams ==
    LET diameter == 120
    IN  [diameter      |-> diameter,
         radius        |-> half(diameter),
         insert_recess |-> 150,
         pcb_stickout  |-> 300,
         rear_stickout |-> 20,
         elbow_radius  |-> diameter,
         pos           |-> PinPositions]

\* with cfg.body as b
BodyParams == [width |-> 3870, height |-> 1200, depth |-> 1340, fillet |-> 175]

\* a variant of CavityParams that leaves one wall, not two, across the width
CavityParams_oneWall(b, t) ==
    [width  |-> b.width - t,
     height |-> b.height - 2 * t,
     depth  |-> b.depth - t,
     fillet |-> 100]

\* with cfg.body.cavity as c
CavityParams(b, t) ==
    [width  |-> b.width - 2 * t,
     height |-> b.height - 2 * t,
     depth  |-> b.depth - t,
     fillet |-> 100]

\* with cfg.body.standoffs as s
StandoffParams(b, p) ==
    LET distance_from_edge == 750
        width == p.diameter
    IN  [width   |-> width,
         height  |-> 50,
         depth   |-> b.depth,
         spacing |-> b.width - 2 * distance_from_edge - width]

\* with cfg.body.flange as f
FlangeParams(b) ==
    LET stickout == 195
    IN  [depth  |-> 200,
         width  |-> b.width + 2 * stickout,
         height |-> b.height + 2 * stickout,
         fillet |-> b.fillet]

\* with cfg.body.inserts as i
InsertParams ==
    LET big == 1690
        small == 1290
        gap == 160
        hole_diameter == 360
    IN  [big           |-> [width |-> big],
         small         |-> [width |-> small],
         gap           |-> gap,
         height        |-> 520,
         hole_diameter |-> hole_diameter,
         stickout      |-> 130,
         fillet        |-> 50,
         hole_radius   |-> half(hole_diameter),
         width         |-> big + gap + small]

\* with cfg.body.grip as g
GripParams(p) ==
    LET diam == p.diameter
        margin == diam
        height == diam + 2 * margin
    IN  [depth  |-> 290,
         width  |-> VLength(VSub(At(p.pos, 6), At(p.pos, 0))) + p.diameter + 2 * margin,
         height |-> height,
         notch  |-> [width |-> diam, height |-> height, depth |-> diam]]

\* with cfg.bling as b
BlingParams == [fillet_everything |-> FALSE, fillet |-> 20]

(***************************************************************************)
(* The script, step by step                                                *)
(***************************************************************************)
\* cfg = cfg(): every namespace starts empty
NoCfg == [pin |-> <<>>, body |-> <<>>, bling |-> <<>>]

NoLoc == Pos(<<0, 0, 0>>)

ShellInputs == {10 * k : k \in 1..MaxShellTenths}

IdxInputs == -MaxIdx..MaxIdx

InitWith(idxs) ==
    /\ pc = "params_pin"
    /\ shell_thickness \in ShellInputs
    /\ dev \in BOOLEAN
    /\ cfg = NoCfg
    /\ mirror_image = FALSE
    /\ mirror = NoLoc
    /\ body = <<>>
    /\ pin = <<>>
    /\ objects = <<>>
    /\ final_pos = NoLoc
    /\ variants = <<>>
    /\ shown = <<>>
    /\ exported = <<>>
    /\ idx \in idxs
    /\ resolved = <<>>

Init == InitWith({0})

build == <<mirror_image, mirror, body, pin, objects, final_pos>>

output == <<variants, shown, exported>>

inputs == <<shell_thickness, dev, idx>>

ParamsPin ==
    /\ pc = "params_pin"
    /\ cfg' = [cfg EXCEPT !.pin = PinParams]
    /\ pc' = "params_body"
    /\ UNCHANGED <<inputs, build, output, resolved>>

ParamsBody ==
    /\ pc = "params_body"
    /\ cfg' = [cfg EXCEPT !.body = BodyParams]
    /\ pc' = "params_cavity"
    /\ UNCHANGED <<inputs, build, output, resolved>>

ParamsCavity ==
    /\ pc = "params_cavity"
    /\ cfg' = [cfg EXCEPT !.body = [cavity |-> CavityParams(cfg.body, shell_thickness)] @@ @]
    /\ pc' = "params_standoffs"
    /\ UNCHANGED <<inputs, build, output, resolved>>

ParamsStandoffs ==
    /\ pc = "params_standoffs"
    /\ cfg' = [cfg EXCEPT !.body = [standoffs |-> StandoffParams(cfg.body, cfg.pin)] @@ @]
    /\ pc' = "params_flange"
    /\ UNCHANGED <<inputs, build, output, resolved>>

ParamsFlange ==
    /\ pc = "params_flange"
    /\ cfg' = [cfg EXCEPT !.body = [flange |-> FlangeParams(cfg.body)] @@ @]
    /\ pc' = "params_inserts"
    /\ UNCHANGED <<inputs, build, output, resolved>>

ParamsInserts ==
    /\ pc = "params_inserts"
    /\ cfg' = [cfg EXCEPT !.body = [inserts |-> InsertParams] @@ @]
    /\ pc' = "params_grip"
    /\ UNCHANGED <<inputs, build, output, resolved>>

ParamsGrip ==
    /\ pc = "params_grip"
    /\ cfg' = [cfg EXCEPT !.body = [grip |-> GripParams(cfg.pin)] @@ @]
    /\ pc' = "params_bling"
    /\ UNCHANGED <<inputs, build, output, resolved>>

ParamsBling ==
    /\ pc = "params_bling"
    /\ cfg' = [cfg EXCEPT !.bling = BlingParams]
    /\ pc' = "connector"
    /\ UNCHANGED <<inputs, build, output, resolved>>

Params ==
    \/ ParamsPin
    \/ ParamsBody
    \/ ParamsCavity
    \/ ParamsStandoffs
    \/ ParamsFlange
    \/ ParamsInserts
    \/ ParamsGrip
    \/ ParamsBling

(***************************************************************************)
(* build123d planes and sketches.  A sketch is kept as the set of its      *)
(* characteristic 2D points; a solid feature as the set of the 3D points   *)
(* those become at both ends of the extrusion.                             *)
(***************************************************************************)
PlaneXY == [origin |-> <<0, 0, 0>>, x_dir |-> <<1, 0, 0>>, y_dir |-> <<0, 1, 0>>, z_dir |-> <<0, 0, 1>>]

PlaneYZ == [origin |-> <<0, 0, 0>>, x_dir |-> <<0, 1, 0>>, y_dir |-> <<0, 0, 1>>, z_dir |-> <<1, 0, 0>>]

\* Plane.offset(d): the origin moved d along the normal
PlaneOffset(pl, d) == [pl EXCEPT !.origin = VAdd(@, VScale(d, pl.z_dir))]

\* Plane.reverse(): the normal flipped, x_dir kept, so local y flips too
PlaneReverse(pl) == [pl EXCEPT !.z_dir = VReverse(@), !.y_dir = VReverse(@)]

\* a plane's local (x, y) in global coordinates
ToGlobal(pl, q) == VAdd(pl.origin, VAdd(VScale(q[1], pl.x_dir), VScale(q[2], pl.y_dir)))

\* SemiStadium(width, height, fillet_radius): the polyline's four points and
\* the three points of the arc closing it on the +x side
SemiStadium(width, height, fillet_radius) ==
    LET radius == half(height)
        arc_x == half(width) - radius
    IN  [line_points |-> <<<<arc_x, -half(height)>>, <<-half(width), -half(height)>>,
                           <<-half(width), half(height)>>, <<arc_x, half(height)>>>>,
         arc         |-> <<<<arc_x, half(height)>>, <<half(width), 0>>, <<arc_x, -half(height)>>>>,
         filleted    |-> fillet_radius > 0]

SketchPoints(st) == {st.line_points[i] : i \in 1..4} \cup {st.arc[i] : i \in 1..3}

\* Rectangle(w, h) centred on c
Rectangle(c, w, h) ==
    {<<c[1] + sx * half(w), c[2] + sy * half(h)>> : sx \in {-1, 1}, sy \in {-1, 1}}

\* extrude(amount): the sketch on its plane and amount further along the
\* plane's normal
Extrude(pl, pts2, amount) ==
    {ToGlobal(pl, q) : q \in pts2}
        \cup {VAdd(ToGlobal(pl, q), VScale(amount, pl.z_dir)) : q \in pts2}

\* Box(w, h, d, align=(CENTER, CENTER, MIN | MAX)) at (cx, cy) of Plane.XY
Box(cx, cy, w, h, d, zalign) ==
    LET z0 == IF zalign = "MIN" THEN 0 ELSE -d
    IN  {<<cx + sx * half(w), cy + sy * half(h), z>> :
            sx \in {-1, 1}, sy \in {-1, 1}, z \in {z0, z0 + d}}

\* GridLocations(x_spacing, y_spacing, 2, 2): a centred 2 x 2 grid
GridLocations(x_spacing, y_spacing) ==
    {<<sx * half(x_spacing), sy * half(y_spacing)>> : sx \in {-1, 1}, sy \in {-1, 1}}

Feature(body_, name) == (CHOOSE i \in 1..Len(body_) : body_[i].name = name)

HasFeature(body_, name) == \E i \in 1..Len(body_) : body_[i].name = name

FeaturePts(body_, name) == body_[Feature(body_, name)].pts

Zs(pts) == {q[3] : q \in pts}

(***************************************************************************)
(* Body.__init__                                                           *)
(***************************************************************************)
\* Base connector shell
ShellFeature(b) ==
    [name |-> "shell", mode |-> "ADD",
     pts  |-> Extrude(PlaneXY, SketchPoints(SemiStadium(b.width, b.height, b.fillet)), b.depth)]

\* The flange on the front
FlangeFeature(b) ==
    [name |-> "flange", mode |-> "ADD",
     pts  |-> Extrude(PlaneReverse(PlaneOffset(PlaneXY, b.depth)),
                      SketchPoints(SemiStadium(b.flange.width, b.flange.height, b.flange.fillet)),
                      b.flange.depth)]

\* Carve out the inner cavity
CavityFeature(b) ==
    [name |-> "cavity", mode |-> "SUBTRACT",
     pts  |-> Extrude(PlaneReverse(PlaneOffset(PlaneXY, b.depth)),
                      SketchPoints(SemiStadium(b.cavity.width, b.cavity.height, b.cavity.fillet)),
                      b.cavity.depth)]

\* PCB standoff rails
StandoffsFeature(b) ==
    [name |-> "standoffs", mode |-> "ADD",
     pts  |-> UNION {Box(g[1], g[2], b.standoffs.width, b.standoffs.height,
                         b.standoffs.depth, "MIN") :
                        g \in GridLocations(b.standoffs.spacing, b.height + b.standoffs.height)}]

\* Cut out between the two pin groups
punchout_center(p) == VHalf(VAdd(At(p.pos, 3), At(p.pos, 4)))

\* extrude(until=Until.NEXT) from the insert sketch plane: the distance to
\* the next face of the body met along the plane's normal, the cavity floor
UntilNext(body_, pl) ==
    LET floor == Min(Zs(FeaturePts(body_, "cavity")))
    IN  Dot(VSub(<<0, 0, floor>>, pl.origin), pl.z_dir)

\* Inserts
InsertsFeature(b, p, body_) ==
    LET pl == PlaneReverse(PlaneOffset(PlaneXY, b.depth + b.inserts.stickout))
        amount == UntilNext(body_, pl)
        c == punchout_center(p)
    IN  [name        |-> "inserts", mode |-> "ADD",
         pts         |-> Extrude(pl, SketchPoints(SemiStadium(b.inserts.width, b.inserts.height, 0)),
                                 amount),
         gap         |-> Extrude(pl, Rectangle(<<c[1], c[2]>>, b.inserts.gap, b.inserts.height),
                                 amount),
         holes       |-> [i \in 1..Len(p.pos) |-> ToGlobal(pl, <<p.pos[i][1], p.pos[i][2]>>)],
         hole_radius |-> b.inserts.hole_radius,
         fillet      |-> b.inserts.fillet]

\* Pin grip on the rear side
GripFeature(b) ==
    [name |-> "grip", mode |-> "ADD",
     pts  |-> Box(0, 0, b.grip.width, b.grip.height, b.grip.depth, "MAX")]

\* the notches cut into the grip at the pin positions
NotchesFeature(b, p) ==
    LET pl == PlaneOffset(PlaneXY, -b.grip.depth)
    IN  [name |-> "notches", mode |-> "SUBTRACT",
         pts  |-> UNION {Extrude(pl, Rectangle(<<p.pos[i][1], p.pos[i][2]>>,
                                               b.grip.notch.width, b.grip.notch.height),
                                 b.grip.notch.depth) : i \in 1..Len(p.pos)}]

\* Housing's / insert's cosmetic fillets, when cfg.bling.fillet_everything
Bling(body_, what) ==
    IF cfg.bling.fillet_everything
    THEN Append(body_, [name |-> what, mode |-> "FILLET", pts |-> {}])
    ELSE body_

\* a variant of BodyShell that goes on to carve the cavity, leaving out the
\* flange
BodyShell_skipsFlange ==
    /\ pc = "body_shell"
    /\ body' = Append(body, ShellFeature(cfg.body))
    /\ pc' = "body_cavity"
    /\ UNCHANGED <<inputs, cfg, mirror_image, mirror, pin, objects, final_pos, output, resolved>>

BodyShell ==
    /\ pc = "body_shell"
    /\ body' = Append(body, ShellFeature(cfg.body))
    /\ pc' = "body_flange"
    /\ UNCHANGED <<inputs, cfg, mirror_image, mirror, pin, objects, final_pos, output, resolved>>

BodyFlange ==
    /\ pc = "body_flange"
    /\ body' = Append(body, FlangeFeature(cfg.body))
    /\ pc' = "body_cavity"
    /\ UNCHANGED <<inputs, cfg, mirror_image, mirror, pin, objects, final_pos, output, resolved>>

BodyCavity ==
    /\ pc = "body_cavity"
    /\ body' = Append(body, CavityFeature(cfg.body))
    /\ pc' = "body_standoffs"
    /\ UNCHANGED <<inputs, cfg, mirror_image, mirror, pin, objects, final_pos, output, resolved>>

BodyStandoffs ==
    /\ pc = "body_standoffs"
    /\ body' = Bling(Append(body, StandoffsFeature(cfg.body)), "housing_fillets")
    /\ pc' = "body_inserts"
    /\ UNCHANGED <<inputs, cfg, mirror_image, mirror, pin, objects, final_pos, output, resolved>>

BodyInserts ==
    /\ pc = "body_inserts"
    /\ body' = Bling(Append(body, InsertsFeature(cfg.body, cfg.pin, body)), "insert_fillets")
    /\ pc' = "body_grip"
    /\ UNCHANGED <<inputs, cfg, mirror_image, mirror, pin, objects, final_pos, output, resolved>>

\* the grip and its notches, then the part is labelled and becomes objects[0]
BodyGrip ==
    /\ pc = "body_grip"
    /\ body' = Append(Append(body, GripFeature(cfg.body)), NotchesFeature(cfg.body, cfg.pin))
    /\ objects' = <<[label |-> "Body", kind |-> "body", loc |-> NoLoc, part |-> body']>>
    /\ pc' = "pin"
    /\ UNCHANGED <<inputs, cfg, mirror_image, mirror, pin, final_pos, output, resolved>>

BodyInit ==
    \/ BodyShell
    \/ BodyFlange
    \/ BodyCavity
    \/ BodyStandoffs
    \/ BodyInserts
    \/ BodyGrip

(***************************************************************************)
(* Pin.__init__                                                            *)
(***************************************************************************)
\* where the pin's straight run starts, inside the insert
start_y(b, p) == b.depth + b.inserts.stickout - p.insert_recess

\* the level of the leg that runs to the board, behind the grip
below_y(b, p) == -(b.grip.depth + p.rear_stickout)

\* where the board-side leg ends
end_x(b, p) == -(half(b.height) + p.pcb_stickout)

\* the swept pin: the three points of its FilletPolyline on Plane.YZ, and the
\* circle of the sweep profile on Plane.XY
Pin(b, p) ==
    [label        |-> "Pin (template)",
     path         |-> <<ToGlobal(PlaneYZ, <<0, start_y(b, p)>>),
                        ToGlobal(PlaneYZ, <<0, below_y(b, p)>>),
                        ToGlobal(PlaneYZ, <<end_x(b, p), below_y(b, p)>>)>>,
     elbow_radius |-> p.elbow_radius,
     centre       |-> ToGlobal(PlaneXY, <<0, 0>>),
     radius       |-> p.radius]

\* the extent of a tube of radius r around the segment from a to e along
\* axis k: the segment's own extent along it, r either side across it
SegExtent(a, e, r, k) ==
    IF a[k] # e[k] THEN {a[k], e[k]} ELSE {a[k] - r, a[k] + r}

\* the pin's bounding box in its own frame
PinBox(pn) ==
    LET ext(k) == SegExtent(pn.path[1], pn.path[2], pn.radius, k)
                      \cup SegExtent(pn.path[2], pn.path[3], pn.radius, k)
    IN  [min |-> <<Min(ext(1)), Min(ext(2)), Min(ext(3))>>,
         max |-> <<Max(ext(1)), Max(ext(2)), Max(ext(3))>>]

Corners(box) == {<<x, y, z>> : x \in {box.min[1], box.max[1]},
                               y \in {box.min[2], box.max[2]},
                               z \in {box.min[3], box.max[3]}}

BoxOf(pts) ==
    [min |-> <<Min({q[1] : q \in pts}), Min({q[2] : q \in pts}), Min({q[3] : q \in pts})>>,
     max |-> <<Max({q[1] : q \in pts}), Max({q[2] : q \in pts}), Max({q[3] : q \in pts})>>]

\* the points that span an object's extent, in its own frame
LocalPts(obj) ==
    IF obj.kind = "pin" THEN Corners(PinBox(obj.part))
    ELSE UNION {obj.part[i].pts : i \in 1..Len(obj.part)}

\* Shape.bounding_box() of a located object
bounding_box(obj) == BoxOf({Apply(obj.loc, q) : q \in LocalPts(obj)})

(***************************************************************************)
(* Connector.__init__                                                      *)
(***************************************************************************)
\* Locations(cfg.pin.pos).local_locations
Locations(pos) == [i \in 1..Len(pos) |-> Pos(pos[i])]

\* a variant of PinLocation that rotates after moving the pin to its place
PinLocation_swapped(loc, mirror_) == LocMul(mirror_, loc)

\* loc = loc * mirror
PinLocation(loc, mirror_) == LocMul(loc, mirror_)

\* a variant of x_adjust that forgets to halve the distance between the groups
x_adjust_nohalf(p) ==
    LET x_3_to_4 == VSub(At(p.pos, 4), At(p.pos, 3))
    IN  VAdd(At(p.pos, 3), x_3_to_4)

\* Adjust so that X is sitting between the two pin groups
x_adjust(p) ==
    LET x_3_to_4 == VSub(At(p.pos, 4), At(p.pos, 3))
    IN  VAdd(At(p.pos, 3), VHalf(x_3_to_4))

\* final_pos = Pos(x_adjust.reverse())
StepRecentre(p) == Pos(VReverse(x_adjust(p)))

\* a variant of StepMirror that leaves the assembly unturned
StepMirror_skipped(mirror_, fp) == fp

\* final_pos = mirror * final_pos
StepMirror(mirror_, fp) == LocMul(mirror_, fp)

\* a variant of StepPinZ that aligns the pin's surface, not its centreline
StepPinZ_noRadius(objs, p, fp) ==
    LET pin_z_adjust == bounding_box(objs[2]).min[3]
    IN  LocMul(Pos(<<0, 0, -pin_z_adjust>>), fp)

\* final_pos = Pos(0, 0, -pin_z_adjust) * final_pos
StepPinZ(objs, p, fp) ==
    LET pin_z_adjust == bounding_box(objs[2]).min[3] + p.radius
    IN  LocMul(Pos(<<0, 0, -pin_z_adjust>>), fp)

\* a variant of StepRot that multiplies on the wrong side, so that the
\* rotation acts before the steps already composed
StepRot_first(fp) == LocMul(fp, Rot(90, 0, 0))

\* final_pos = Rot(90, 0, 0) * final_pos
StepRot(fp) == LocMul(Rot(90, 0, 0), fp)

\* a variant of StepLift that forgets the standoffs
StepLift_noStandoffs(b, fp) == LocMul(Pos(<<0, 0, half(b.height)>>), fp)

\* final_pos = Pos(0, 0, cfg.body.height/2 + cfg.body.standoffs.height) * final_pos
StepLift(b, fp) == LocMul(Pos(<<0, 0, half(b.height) + b.standoffs.height>>), fp)

\* final_pos * obj
Moved(fp, obj) == [obj EXCEPT !.loc = LocMul(fp, @)]

\* the name of variants' next key
VariantLabel(mi) == IF mi THEN "left" ELSE "right"

\* Connector(False) is built first, then Connector(True) (the order of the
\* variants dict); the rotation that stands in for a mirror operation
ConnectorBegin ==
    /\ pc = "connector"
    /\ mirror_image' = (Len(variants) = 1)
    /\ mirror' = Rot(0, 0, IF mirror_image' THEN 180 ELSE 0)
    /\ body' = <<>>
    /\ pin' = <<>>
    /\ objects' = <<>>
    /\ final_pos' = NoLoc
    /\ pc' = "body_shell"
    /\ UNCHANGED <<inputs, cfg, output, resolved>>

\* pin = Pin()
PinInit ==
    /\ pc = "pin"
    /\ pin' = Pin(cfg.body, cfg.pin)
    /\ pc' = "place_pin"
    /\ UNCHANGED <<inputs, cfg, mirror_image, mirror, body, objects, final_pos, output, resolved>>

\* one turn of the loop over the pin locations
PlacePin ==
    /\ pc = "place_pin"
    /\ LET i == Len(objects) - 1
           loc == PinLocation(Locations(cfg.pin.pos)[i + 1], mirror)
       IN  objects' = Append(objects, [label |-> "Pin " \o ToString(i + 1), kind |-> "pin",
                                       loc |-> loc, part |-> pin])
    /\ pc' = IF Len(objects') = Len(cfg.pin.pos) + 1 THEN "final_recentre" ELSE "place_pin"
    /\ UNCHANGED <<inputs, cfg, mirror_image, mirror, body, pin, final_pos, output, resolved>>

FinalRecentre ==
    /\ pc = "final_recentre"
    /\ final_pos' = StepRecentre(cfg.pin)
    /\ pc' = "final_mirror"
    /\ UNCHANGED <<inputs, cfg, mirror_image, mirror, body, pin, objects, output, resolved>>

FinalMirror ==
    /\ pc = "final_mirror"
    /\ final_pos' = StepMirror(mirror, final_pos)
    /\ pc' = "final_pin_z"
    /\ UNCHANGED <<inputs, cfg, mirror_image, mirror, body, pin, objects, output, resolved>>

FinalPinZ ==
    /\ pc = "final_pin_z"
    /\ final_pos' = StepPinZ(objects, cfg.pin, final_pos)
    /\ pc' = "final_rot"
    /\ UNCHANGED <<inputs, cfg, mirror_image, mirror, body, pin, objects, output, resolved>>

FinalRot ==
    /\ pc = "final_rot"
    /\ final_pos' = StepRot(final_pos)
    /\ pc' = "final_lift"
    /\ UNCHANGED <<inputs, cfg, mirror_image, mirror, body, pin, objects, output, resolved>>

FinalLift ==
    /\ pc = "final_lift"
    /\ final_pos' = StepLift(cfg.body, final_pos)
    /\ pc' = "final_apply"
    /\ UNCHANGED <<inputs, cfg, mirror_image, mirror, body, pin, objects, output, resolved>>

\* objects = [final_pos * obj for obj in objects]; the Compound becomes the
\* next entry of variants
FinalApply ==
    /\ pc = "final_apply"
    /\ objects' = [i \in 1..Len(objects) |-> Moved(final_pos, objects[i])]
    /\ variants' = Append(variants, [variant |-> VariantLabel(mirror_image),
                                     obj |-> [label |-> "Connector", children |-> objects']])
    /\ pc' = IF Len(variants') = 2 THEN "show" ELSE "connector"
    /\ UNCHANGED <<inputs, cfg, mirror_image, mirror, body, pin, final_pos, shown, exported, resolved>>

ConnectorInit ==
    \/ ConnectorBegin
    \/ PinInit
    \/ PlacePin
    \/ FinalRecentre
    \/ FinalMirror
    \/ FinalPinZ
    \/ FinalRot
    \/ FinalLift
    \/ FinalApply

(***************************************************************************)
(* The end of the script: show, the export loop, done                      *)
(***************************************************************************)
\* variants[label]
VariantObj(vs, label) == vs[CHOOSE i \in 1..Len(vs) : vs[i].variant = label].obj

\* a variant of StepFile that names every export alike
StepFile_fixed(variant) == "SNES Controller Connector.pretty/snes_connector.stp"

\* the file an export is written to
StepFile(variant) == "SNES Controller Connector.pretty/snes_connector_" \o variant \o ".stp"

\* show(variants['left']): nothing unless dev
Show ==
    /\ pc = "show"
    /\ shown' = IF dev THEN <<VariantObj(variants, "left")>> ELSE shown
    /\ pc' = "export"
    /\ UNCHANGED <<inputs, cfg, build, variants, exported, resolved>>

\* one turn of the loop over variants.items()
Export ==
    /\ pc = "export"
    /\ LET v == variants[Len(exported) + 1]
       IN  exported' = Append(exported, [file |-> StepFile(v.variant), variant |-> v.variant,
                                         obj |-> v.obj])
    /\ pc' = IF Len(exported') = Len(variants) THEN "done" ELSE "export"
    /\ UNCHANGED <<inputs, cfg, build, variants, shown, resolved>>

\* print("done!") and the interpreter exits
Done ==
    /\ pc = "done"
    /\ pc' = "exit"
    /\ UNCHANGED <<inputs, cfg, build, output, resolved>>

Next == Params \/ BodyInit \/ ConnectorInit \/ Show \/ Export \/ Done

Spec == Init /\ [][Next]_vars

(***************************************************************************)
(* Subscripting cfg.pin.pos with an arbitrary index, once params() has     *)
(* returned                                                                *)
(***************************************************************************)
ResolvePin ==
    /\ pc = "connector"
    /\ resolved' = <<GetItem(cfg.pin.pos, idx)>>
    /\ pc' = "resolved"
    /\ UNCHANGED <<inputs, cfg, build, output>>

InitResolve == InitWith(IdxInputs)

NextResolve == Params \/ ResolvePin

SpecResolve == InitResolve /\ [][NextResolve]_vars

(***************************************************************************)
(* Reading a finished assembly                                             *)
(***************************************************************************)
HasVariant(label) == \E i \in 1..Len(variants) : variants[i].variant = label

Labels == {"right", "left"}

BuiltLabels == {l \in Labels : HasVariant(l)}

PinIdx == 1..NumPins

BodyOf(label) == VariantObj(variants, label).children[1]

PinOf(label, i) == VariantObj(variants, label).children[i + 1]

\* a located object's point in the frame the object is located in
At3(obj, q) == Apply(obj.loc, q)

PartPts(obj, name) == {At3(obj, q) : q \in FeaturePts(obj.part, name)}

InsertsOf(obj) == obj.part[Feature(obj.part, "inserts")]

HoleCentre(obj, i) == At3(obj, InsertsOf(obj).holes[i])

\* the points that characterise a pin: its path, its profile circle's centre
\* and four cardinal points, and the corners of its extent
PinPts(obj) ==
    LET pn == obj.part
        r == pn.radius
        ring == {VAdd(pn.centre, d) : d \in {<<r, 0, 0>>, <<-r, 0, 0>>, <<0, r, 0>>, <<0, -r, 0>>}}
    IN  {At3(obj, q) : q \in {pn.path[k] : k \in 1..3} \cup {pn.centre} \cup ring
                                \cup Corners(PinBox(pn))}

MirrorX(S) == {<<-q[1], q[2], q[3]>> : q \in S}

SolidNames == {"shell", "flange", "cavity", "standoffs", "inserts", "grip", "notches"}

\* the extent of a whole assembly: its added solids and its pins
AssemblyBox(label) ==
    BoxOf(UNION {PartPts(BodyOf(label), n) : n \in {"shell", "flange", "standoffs", "inserts", "grip"}}
            \cup UNION {PinPts(PinOf(label, i)) : i \in PinIdx})

BoxSize(box) == VSub(box.max, box.min)

PinParamsSet == pc # "params_pin"

CavityParamsSet == pc \notin {"params_pin", "params_body", "params_cavity"}

PinX(l, i) == At3(PinOf(l, i), PinOf(l, i).part.centre)[1]

LegPts(l, i) == {At3(PinOf(l, i), PinOf(l, i).part.path[k]) : k \in 2..3}

PinRowOnX(l) ==
    /\ \A i \in PinIdx : \A q \in LegPts(l, i) : q[2] = 0
    /\ \A i, j \in PinIdx :
           {<<q[2], q[3]>> : q \in LegPts(l, i)} = {<<q[2], q[3]>> : q \in LegPts(l, j)}
    /\ \A i, j \in PinIdx : i # j => PinX(l, i) # PinX(l, j)
    /\ \A i \in PinIdx : \A q \in LegPts(l, i) : q[1] = PinX(l, i)

FrontFacesNegY(l) ==
    /\ \A q \in PartPts(BodyOf(l), "flange") : q[2] < 0
    /\ Min({q[2] : q \in PartPts(BodyOf(l), "inserts")}) < 0

ShellInRange == shell_thickness > 0 /\ 2 * shell_thickness < cfg.body.height

IsAssembly(obj) ==
    /\ obj.label = "Connector"
    /\ Len(obj.children) = 8
    /\ obj.children[1].kind = "body" /\ obj.children[1].label = "Body"
    /\ \A k \in 2..8 : obj.children[k].kind = "pin"
    /\ [k \in 2..8 |-> obj.children[k].label]
           = [k \in 2..8 |-> <<"Pin 1", "Pin 2", "Pin 3", "Pin 4", "Pin 5", "Pin 6", "Pin 7">>[k - 1]]

\* the straight run of a pin through the insert: its front end, the centre
\* of its profile circle, and the start of the elbow
RunPts(obj) == {At3(obj, q) : q \in {obj.part.path[1], obj.part.centre, obj.part.path[2]}}

Placed == pc \in {"final_recentre", "final_mirror", "final_pin_z", "final_rot", "final_lift",
                  "final_apply"}

\* the five locations Connector.__init__ multiplies into final_pos, in the
\* order of its statements
PlacementStep(k) ==
    CASE k = 1 -> Pos(VReverse(x_adjust(cfg.pin)))
      [] k = 2 -> mirror
      [] k = 3 -> Pos(<<0, 0, -(bounding_box(objects[2]).min[3] + cfg.pin.radius)>>)
      [] k = 4 -> Rot(90, 0, 0)
      [] k = 5 -> Pos(<<0, 0, half(cfg.body.height) + cfg.body.standoffs.height>>)

RECURSIVE Composed(_)
\* the location that acts as the steps of order, the first of them first
Composed(order) ==
    IF order = <<>> THEN NoLoc
    ELSE LocMul(PlacementStep(order[Len(order)]), Composed(SubSeq(order, 1, Len(order) - 1)))

\* the order of the steps with steps i and j exchanged
Exchanged(i, j) == [k \in 1..5 |-> IF k = i THEN j ELSE IF k = j THEN i ELSE k]

StepPairs == {ij \in (1..5) \X (1..5) : ij[1] < ij[2]}

\* the exchanges that leave the placement as it is
Harmless(mi) == IF mi THEN {<<2, 3>>} ELSE {<<1, 2>>, <<1, 3>>, <<2, 3>>}

\* how many steps final_pos holds at each place of Connector.__init__
StepsDone ==
    CASE pc = "final_mirror" -> 1
      [] pc = "final_pin_z" -> 2
      [] pc = "final_rot" -> 3
      [] pc = "final_lift" -> 4
      [] pc = "final_apply" -> 5
      [] OTHER -> 0

ComposedInOrder ==
    /\ StepsDone > 0 => final_pos = Composed([k \in 1..StepsDone |-> k])
    /\ (Len(variants) > 0 /\ pc \in {"connector", "show", "export", "done", "exit"}) =>
           variants[Len(variants)].obj.children[1].loc = final_pos

\* the names and modes of the features of a body, in the order they were made
BodySteps(body_) == [k \in 1..Len(body_) |-> <<body_[k].name, body_[k].mode>>]

IsPrefix(a, b) == Len(a) <= Len(b) /\ a = SubSeq(b, 1, Len(a))

BodyOrderIs(order) ==
    /\ IsPrefix(BodySteps(body), order)
    /\ Len(objects) > 0 => BodySteps(objects[1].part) = order
    /\ \A i \in 1..Len(variants) : BodySteps(variants[i].obj.children[1].part) = order

(***************************************************************************)
(* C1: of the 7 pin positions computed in params(), consecutive ones are   *)
(* one pitch (4 mm) apart, except those at index 3 and 4, which are 6.5 mm *)
(* apart; so the positions strictly increase and the groups are 4 and 3.   *)
(***************************************************************************)
C1_PinSpacing ==
    PinParamsSet =>
        LET pos == cfg.pin.pos
        IN  /\ Len(pos) = 7
            /\ \A i \in 0..5 :
                   VSub(At(pos, i + 1), At(pos, i)) = Vector(IF i = 3 THEN 650 ELSE 400)
            /\ \A i \in 0..5 : At(pos, i)[1] < At(pos, i + 1)[1]
            /\ Cardinality({i \in 0..5 : At(pos, i + 1)[1] - At(pos, i)[1] # 400}) = 1

C1_Witness == pc = "params_body" /\ Len(cfg.pin.pos) = 7

(***************************************************************************)
(* C2: the two variants are mirror images across X = 0 of the final frame: *)
(* every solid of the body (with the insert gap and holes) and each of the *)
(* 7 pins of one is the other's with x negated, the two differ, and their  *)
(* bounding boxes have the same size.                                      *)
(***************************************************************************)
C2_MirrorImages ==
    (HasVariant("right") /\ HasVariant("left")) =>
        LET r == BodyOf("right")
            l == BodyOf("left")
        IN  /\ \A n \in SolidNames : MirrorX(PartPts(r, n)) = PartPts(l, n)
            /\ MirrorX({At3(r, q) : q \in InsertsOf(r).gap}) = {At3(l, q) : q \in InsertsOf(l).gap}
            /\ \A i \in PinIdx : MirrorX({HoleCentre(r, i)}) = {HoleCentre(l, i)}
            /\ \A i \in PinIdx : MirrorX(PinPts(PinOf("right", i))) = PinPts(PinOf("left", i))
            /\ PartPts(r, "shell") # PartPts(l, "shell")
            /\ BoxSize(AssemblyBox("right")) = BoxSize(AssemblyBox("left"))

C2_Witness ==
    /\ pc = "show"
    /\ HasVariant("right")
    /\ HasVariant("left")
    /\ Max({q[1] : q \in PartPts(BodyOf("right"), "shell")})
           = -Min({q[1] : q \in PartPts(BodyOf("left"), "shell")})

(***************************************************************************)
(* C3: in both variants each pin's board-side end is pcb_stickout (3 mm)   *)
(* below the PCB surface: the end of its path is at Z = -pcb_stickout      *)
(* while the standoffs rest on Z = 0.                                      *)
(***************************************************************************)
C3_PinStickout ==
    \A l \in BuiltLabels : \A i \in PinIdx :
        /\ Min(Zs(PartPts(BodyOf(l), "standoffs"))) = 0
        /\ At3(PinOf(l, i), PinOf(l, i).part.path[3])[3] = -cfg.pin.pcb_stickout

(***************************************************************************)
(* C4 as stated: in both variants the construction-frame level             *)
(* y = -(body.height/2 + standoffs.height) of the standoffs is taken to    *)
(* Z = 0 by the placement transform.                                       *)
(***************************************************************************)
C4_Original ==
    \A l \in BuiltLabels :
        LET b == BodyOf(l)
            level == -(half(cfg.body.height) + cfg.body.standoffs.height)
        IN  \A q \in FeaturePts(b.part, "standoffs") : q[2] = level => At3(b, q)[3] = 0

(***************************************************************************)
(* C4 as amended: in both variants the lowest surface of the standoffs is  *)
(* at Z = 0 of the final frame; the construction-frame level taken there   *)
(* is y = -(body.height/2 + standoffs.height) when mirror_image is False   *)
(* and y = +(body.height/2 + standoffs.height) when it is True.            *)
(***************************************************************************)
C4_StandoffsFlush ==
    \A l \in BuiltLabels :
        LET b == BodyOf(l)
            level == (IF l = "left" THEN 1 ELSE -1)
                        * (half(cfg.body.height) + cfg.body.standoffs.height)
            low == {q \in FeaturePts(b.part, "standoffs") : q[2] = level}
        IN  /\ Min(Zs(PartPts(b, "standoffs"))) = 0
            /\ low # {}
            /\ \A q \in FeaturePts(b.part, "standoffs") : (At3(b, q)[3] = 0) <=> (q \in low)

C4_Witness ==
    /\ BuiltLabels = Labels
    /\ \E q \in PartPts(BodyOf("left"), "standoffs") : q[3] = 0
    /\ \E q \in PartPts(BodyOf("right"), "standoffs") : q[3] = 0

(***************************************************************************)
(* C5: in both variants the final X origin is midway between the fourth    *)
(* and fifth contacts: their final X coordinates are opposite and not 0,   *)
(* though the centre of the bounding box is elsewhere.                     *)
(***************************************************************************)
C5_OriginBetweenGroups ==
    \A l \in BuiltLabels :
        /\ PinX(l, 4) = -PinX(l, 5)
        /\ PinX(l, 4) # 0
        /\ \A q \in PinPts(PinOf(l, 4)) : \E w \in PinPts(PinOf(l, 5)) : w = <<-q[1], q[2], q[3]>>
        /\ AssemblyBox(l).min[1] + AssemblyBox(l).max[1] # 0

C5_Witness == HasVariant("left") /\ PinX("left", 4) = 325 /\ PinX("right", 4) = -325

(***************************************************************************)
(* C6 as stated: in both variants the pins' board-entry legs have their    *)
(* centrelines on Y = 0 and differ only in X, the plug-in face (flange,    *)
(* insert front) is on the negative-Y side of the pin row, and the rear    *)
(* grip is on the other (positive-Y) side.                                 *)
(***************************************************************************)
C6_Original ==
    \A l \in BuiltLabels :
        /\ PinRowOnX(l)
        /\ FrontFacesNegY(l)
        /\ \A q \in PartPts(BodyOf(l), "grip") : q[2] >= 0

(***************************************************************************)
(* C6 as amended: in both variants the pins' board-entry legs have their   *)
(* centrelines on Y = 0 and differ only in X, and the plug-in face         *)
(* (flange, insert front) is on the negative-Y side of the pin row; the    *)
(* rear grip is on the negative-Y side too, between Y = -(grip.depth +     *)
(* rear_stickout) and Y = -rear_stickout, nearer the pin row than the      *)
(* flange and the insert front.                                            *)
(***************************************************************************)
C6_Orientation ==
    \A l \in BuiltLabels :
        LET grip == {q[2] : q \in PartPts(BodyOf(l), "grip")}
            front == {q[2] : q \in PartPts(BodyOf(l), "flange")}
                        \cup {Min({q[2] : q \in PartPts(BodyOf(l), "inserts")})}
        IN  /\ PinRowOnX(l)
            /\ FrontFacesNegY(l)
            /\ Min(grip) = -(cfg.body.grip.depth + cfg.pin.rear_stickout)
            /\ Max(grip) = -cfg.pin.rear_stickout
            /\ Max(grip) < 0
            /\ Max(front) < Min(grip)

C6_Witness ==
    /\ BuiltLabels = Labels
    /\ \A l \in Labels : Max({q[2] : q \in PartPts(BodyOf(l), "grip")}) = -20

(***************************************************************************)
(* C7 as stated: for any positive shell_thickness below half the body      *)
(* height, every cavity dimension computed in params() (width, height,     *)
(* depth) is smaller than the body's by at least twice shell_thickness.    *)
(***************************************************************************)
C7_Original ==
    (CavityParamsSet /\ ShellInRange) =>
        LET b == cfg.body
            c == cfg.body.cavity
        IN  /\ b.width - c.width >= 2 * shell_thickness
            /\ b.height - c.height >= 2 * shell_thickness
            /\ b.depth - c.depth >= 2 * shell_thickness

(***************************************************************************)
(* C7 as amended: for any positive shell_thickness below half the body     *)
(* height, the cavity's width and height are smaller than the body's by    *)
(* exactly twice shell_thickness and its depth by exactly shell_thickness  *)
(* (one wall, at the rear; the cavity is open at the front); the carved    *)
(* cavity lies shell_thickness inside the shell on both sides in x and y   *)
(* and shell_thickness above its rear face.                                *)
(***************************************************************************)
C7_CavityInsideShell ==
    (CavityParamsSet /\ ShellInRange) =>
        LET b == cfg.body
            c == cfg.body.cavity
            t == shell_thickness
        IN  /\ b.width - c.width = 2 * t
            /\ b.height - c.height = 2 * t
            /\ b.depth - c.depth = t
            /\ c.width > 0 /\ c.height > 0 /\ c.depth > 0
            /\ HasFeature(body, "cavity") =>
                   LET s == BoxOf(FeaturePts(body, "shell"))
                       v == BoxOf(FeaturePts(body, "cavity"))
                   IN  /\ v.min = VAdd(s.min, <<t, t, t>>)
                       /\ v.max = VAdd(s.max, <<-t, -t, 0>>)

C7_Witness ==
    /\ HasFeature(body, "cavity")
    /\ shell_thickness = 160
    /\ cfg.body.cavity.depth = 1180

(***************************************************************************)
(* C8: a run builds exactly two assemblies, 'right' unmirrored then 'left' *)
(* mirrored, and exports each once to a file named after its label; each   *)
(* exported assembly is one body and seven pins labelled Pin 1 .. Pin 7;   *)
(* nothing is exported before both assemblies are built.                   *)
(***************************************************************************)
C8_TwoAssembliesTwoExports ==
    /\ Len(variants) <= 2
    /\ [i \in 1..Len(variants) |-> variants[i].variant] = SubSeq(<<"right", "left">>, 1, Len(variants))
    /\ \A i \in 1..Len(variants) :
           /\ IsAssembly(variants[i].obj)
           /\ variants[i].obj.children[1].loc.m
                  = LocMul(Rot(90, 0, 0), Rot(0, 0, IF i = 2 THEN 180 ELSE 0)).m
    /\ Len(exported) > 0 => Len(variants) = 2
    /\ Len(exported) <= 2
    /\ \A i \in 1..Len(exported) :
           /\ exported[i].obj = variants[i].obj
           /\ exported[i].file = <<"SNES Controller Connector.pretty/snes_connector_right.stp",
                                   "SNES Controller Connector.pretty/snes_connector_left.stp">>[i]
    /\ pc \in {"done", "exit"} => Len(exported) = 2

C8_Witness ==
    /\ pc = "exit"
    /\ Len(exported) = 2
    /\ exported[1].variant = "right"
    /\ exported[2].variant = "left"

C10_HolesConcentric ==
    /\ Placed =>
           \A i \in PinIdx :
               \A q \in RunPts(objects[i + 1]) :
                   /\ q[1] = HoleCentre(objects[1], i)[1]
                   /\ q[2] = HoleCentre(objects[1], i)[2]
    /\ \A l \in BuiltLabels : \A i \in PinIdx :
           \A q \in RunPts(PinOf(l, i)) :
               /\ q[1] = HoleCentre(BodyOf(l), i)[1]
               /\ q[3] = HoleCentre(BodyOf(l), i)[3]

C10_Witness ==
    /\ pc = "final_recentre"
    /\ mirror_image
    /\ HasVariant("right")
    /\ HoleCentre(objects[1], 1)[1] = -1325

(***************************************************************************)
(* C11 as stated: the placement transform is the recentring translation,   *)
(* then the yaw (a turn only when mirrored), then the vertical shift by    *)
(* the pin line, then the 90-degree pitch rotation, then the final lift;   *)
(* and exchanging any two of these steps gives a different placement.      *)
(***************************************************************************)
C11_Original ==
    /\ ComposedInOrder
    /\ pc = "final_apply" =>
           \A ij \in StepPairs : Composed(Exchanged(ij[1], ij[2])) # final_pos

(***************************************************************************)
(* C11 as amended: the placement transform is the recentring translation,  *)
(* then the yaw (a turn only when mirrored), then the vertical shift by    *)
(* the pin line, then the 90-degree pitch rotation, then the final lift.   *)
(* Exchanging two of these steps gives a different placement, except that  *)
(* exchanging the yaw with the vertical shift changes nothing in either    *)
(* variant, and in the unmirrored variant neither does exchanging the      *)
(* recentring with the yaw or with the vertical shift.                     *)
(***************************************************************************)
C11_OrderOfPlacement ==
    /\ ComposedInOrder
    /\ pc = "final_apply" =>
           \A ij \in StepPairs :
               (Composed(Exchanged(ij[1], ij[2])) = final_pos) <=> (ij \in Harmless(mirror_image))

C11_Witness ==
    /\ pc = "final_apply"
    /\ mirror_image
    /\ Composed(Exchanged(1, 2)) # final_pos
    /\ Composed(Exchanged(2, 3)) = final_pos

(***************************************************************************)
(* C12 as stated: Body is built in the order shell extrusion, cavity       *)
(* subtraction, flange, standoffs, inserts, grip and its notches; the      *)
(* cavity is subtracted before the flange is added.                        *)
(***************************************************************************)
C12_Original ==
    BodyOrderIs(<<<<"shell", "ADD">>, <<"cavity", "SUBTRACT">>, <<"flange", "ADD">>,
                  <<"standoffs", "ADD">>, <<"inserts", "ADD">>, <<"grip", "ADD">>,
                  <<"notches", "SUBTRACT">>>>)

(***************************************************************************)
(* C12 as amended: Body is built in the order shell extrusion, flange,     *)
(* cavity subtraction, standoffs, inserts, grip and its notches; the       *)
(* flange is added before the cavity is subtracted, and the cavity, cut    *)
(* from the flange's front face, passes through the whole flange.          *)
(***************************************************************************)
C12_BodyOrder ==
    /\ BodyOrderIs(<<<<"shell", "ADD">>, <<"flange", "ADD">>, <<"cavity", "SUBTRACT">>,
                     <<"standoffs", "ADD">>, <<"inserts", "ADD">>, <<"grip", "ADD">>,
                     <<"notches", "SUBTRACT">>>>)
    /\ HasFeature(body, "cavity") =>
           /\ Feature(body, "flange") < Feature(body, "cavity")
           /\ Max(Zs(FeaturePts(body, "cavity"))) = Max(Zs(FeaturePts(body, "flange")))
           /\ Min(Zs(FeaturePts(body, "cavity"))) < Min(Zs(FeaturePts(body, "flange")))

C12_Witness ==
    /\ pc = "body_standoffs"
    /\ Len(body) = 3
    /\ body[2].name = "flange"
    /\ body[3].name = "cavity"

====
